---- MODULE Spec2Model ----
(***************************************************************************)
(* gitstars (src/app/main.py): a FastAPI service that fronts the GitHub    *)
(* API with a sqlite cache.  The model follows get_github_info and the     *)
(* functions it calls.                                                      *)
(*                                                                         *)
(* Granularity.  The handlers are coroutines on one event loop.  The       *)
(* github3 client is a blocking library (gh._get(...).json() and           *)
(* gh.repository(...) are used without await), so `await get_ratelimits()` *)
(* and `await get_info_from_github(...)` never yield to the loop.  The     *)
(* only real suspension points are the aiosqlite calls.  A request is      *)
(* therefore three atomic segments: the SELECT (Read), lines 191-216 up to *)
(* the first await inside save_github_info_into_sqlite (Decide), and the   *)
(* REPLACE (Save).  A task given to BackgroundTasks runs after the         *)
(* response has been sent (RunBackgroundTask).                             *)
(*                                                                         *)
(* The model keeps two requests in flight at a time (Requests); a slot is  *)
(* taken again once its request has returned and its background task has   *)
(* run.  MaxRequests bounds the number of requests served in a behaviour.  *)
(***************************************************************************)
EXTENDS Integers, Sequences, FiniteSets, TLC

\* ---------------------------------------------------------------- bounds
\* requests served in one behaviour
MaxRequests == 2

\* ------------------------------------------------- configuration defaults
CACHE_SOFT_TTL == 60
CACHE_HARD_TTL == 600
CACHE_REGENERATE_CHANCE == 10
RATELIMIT_PRESERVE == 10
RATELIMIT_FLOOR == 10

\* The module imports datetime, aiosqlite, os, ujson, ... but not random,
\* so evaluating `random.random()` raises NameError.
RandomImported == FALSE

\* ------------------------------------------------------------ input sets
Owners == {"octocat"}
Repositories == {"hello"}
\* user_info passes repository=False; "False" stands for that value
NoRepository == "False"
Payloads == {"A", "B"}
\* the clock, in seconds; the points sit on both sides of each TTL
TimePoints == {0, 3599, 3600, 36000}
\* random.random() in hundredths
Draws == {9, 10}
\* resources.core when the service starts: the limit of an anonymous (60)
\* and of an authenticated (5000) client, with what is left of it
InitialRatelimits ==
    {[limit |-> 60, remaining |-> 9], [limit |-> 60, remaining |-> 10],
     [limit |-> 5000, remaining |-> 10], [limit |-> 5000, remaining |-> 500]}
UpstreamOutcomes == {"ok", "NotFoundError", "private", "error"}
\* the slots of the requests in flight
Requests == {1, 2}

\* ------------------------------------------------------- Python values
False == [py |-> "False"]
Dict(payload, age) == [py |-> "dict", payload |-> payload, age |-> age]
Raise(exc) == [py |-> "raise", exc |-> exc]
Truthy(v) == v.py = "dict"
\* `if repository:` on the path parameter
HasRepository(repository) == repository # NoRepository

\* ujson.dumps / ujson.loads on the two kinds of value that are stored
ujson_dumps(details) ==
    IF details.py = "False"
    THEN [json |-> "false"]
    ELSE [json |-> "object", payload |-> details.payload, age |-> details.age]

ujson_loads(text) ==
    IF text.json = "false"
    THEN False
    ELSE Dict(text.payload, text.age)

VARIABLES
    now,              \* int(datetime.timestamp(datetime.now())), seconds
    ratelimit_core,   \* GitHub's resources.core: [limit, remaining]
    repositories,     \* rows of table repositories
    users,            \* rows of table users
    req,              \* per slot: the request in flight, and what it saw and did
    started,          \* requests served so far
    guard             \* the percentage test on its own: its reserve and verdict

vars == <<now, ratelimit_core, repositories, users, req, started, guard>>

\* ---------------------------------------------------------------- sqlite
\* the rows to replace matched on the owner alone
ReplaceIntoRepositories_owner(rows, owner, repository, update_time, details_json) ==
    {x \in rows : x.owner # owner}
        \cup {[owner |-> owner, repository |-> repository,
               update_time |-> update_time, details_json |-> details_json]}

\* the row stamped with the minutes and seconds within the hour, not with
\* the epoch seconds
ReplaceIntoRepositories_timeofday(rows, owner, repository, update_time, details_json) ==
    {x \in rows : ~(x.owner = owner /\ x.repository = repository)}
        \cup {[owner |-> owner, repository |-> repository,
               update_time |-> update_time % 3600, details_json |-> details_json]}

\* REPLACE INTO under PRIMARY KEY (owner, repository)
ReplaceIntoRepositories(rows, owner, repository, update_time, details_json) ==
    {x \in rows : ~(x.owner = owner /\ x.repository = repository)}
        \cup {[owner |-> owner, repository |-> repository,
               update_time |-> update_time, details_json |-> details_json]}

\* the statement as a plain INSERT into a table without its primary key
ReplaceIntoUsers_insert(rows, user, update_time, details_json) ==
    rows \cup {[user |-> user, update_time |-> update_time,
                details_json |-> details_json]}

\* REPLACE INTO under PRIMARY KEY (user)
ReplaceIntoUsers(rows, user, update_time, details_json) ==
    {x \in rows : x.user # user}
        \cup {[user |-> user, update_time |-> update_time,
               details_json |-> details_json]}

\* the SELECT of get_saved_github_info_from_sqlite: the matching rows,
\* reduced to (update_time, details_json)
SelectRow(owner, repository) ==
    IF HasRepository(repository)
    THEN {[update_time |-> x.update_time, details_json |-> x.details_json] :
            x \in {y \in repositories : y.owner = owner /\ y.repository = repository}}
    ELSE {[update_time |-> x.update_time, details_json |-> x.details_json] :
            x \in {y \in users : y.user = owner}}

\* int((now - update_time) / 60)
AgeInMinutes(update_time) == (now - update_time) \div 60

get_saved_github_info_from_sqlite(owner, repository) ==
    LET found == SelectRow(owner, repository) IN
    IF found = {}
    THEN False
    ELSE LET row == CHOOSE x \in found : TRUE
             details == ujson_loads(row.details_json)
         IN IF Truthy(details)
            THEN [details EXCEPT !.age = AgeInMinutes(row.update_time)]
            ELSE details

\* 'select (select count() from repositories) as count, * from repositories':
\* the first row's first column, or 0 when the table gives no row
get_stored_repository_count ==
    IF repositories = {} THEN 0 ELSE Cardinality(repositories)

\* the same statement on table users
get_stored_user_count ==
    IF users = {} THEN 0 ELSE Cardinality(users)

\* positional binding of save_github_info_into_sqlite(owner, repository,
\* details): a call with another number of arguments raises TypeError
SaveRaisesTypeError(args) == Len(args) # 3

\* save_github_info_into_sqlite called with the argument tuple args
save_github_info_into_sqlite(args) ==
    IF SaveRaisesTypeError(args)
    THEN UNCHANGED <<repositories, users>>
    ELSE IF HasRepository(args[2])
         THEN /\ repositories' = ReplaceIntoRepositories(repositories,
                      args[1], args[2], now, ujson_dumps(args[3]))
              /\ UNCHANGED users
         ELSE /\ users' = ReplaceIntoUsers(users, args[1], now, ujson_dumps(args[3]))
              /\ UNCHANGED repositories

\* ---------------------------------------------------------------- GitHub
get_ratelimits == ratelimit_core

\* int(ratelimits['remaining'] / ratelimits['limit'] * 100) in binary
\* floating point: the quotient times 100 falls just below the integer for
\* these (remaining, limit), and int() then truncates one lower
FloatShortfall == {<<1450, 5000>>, <<2850, 5000>>, <<2900, 5000>>}

requests_remaining_percent(ratelimits) ==
    LET exact == (ratelimits.remaining * 100) \div ratelimits.limit IN
    IF <<ratelimits.remaining, ratelimits.limit>> \in FloatShortfall
    THEN exact - 1
    ELSE exact

\* the reserve read as a number of calls, not as a percentage
RatelimitRunningOut_count(ratelimits) ==
    ratelimits.remaining < RATELIMIT_PRESERVE

\* lines 207-208 for a reserve read from the environment
PercentTest(ratelimits, reserve) ==
    requests_remaining_percent(ratelimits) < reserve

\* line 208: "If the ratelimit is running out save API calls for new entries"
RatelimitRunningOut(ratelimits) ==
    PercentTest(ratelimits, RATELIMIT_PRESERVE)

\* get_repository_info_from_github without its check of the floor
get_repository_info_from_github_nofloor(ratelimits, outcome, payload) ==
    IF outcome = "NotFoundError"
    THEN [ret |-> False, fetched |-> TRUE, calls |-> 1]
    ELSE IF outcome = "error"
    THEN [ret |-> Raise("error"), fetched |-> TRUE, calls |-> 1]
    ELSE IF outcome = "private"
    THEN [ret |-> False, fetched |-> TRUE, calls |-> 1]
    ELSE [ret |-> Dict(payload, 0), fetched |-> TRUE, calls |-> 1]

\* get_user_info_from_github holding back for the percentage reserve too
get_user_info_from_github_reserve(ratelimits, outcome, payload) ==
    IF ratelimits.remaining < RATELIMIT_FLOOR \/ RatelimitRunningOut(ratelimits)
    THEN [ret |-> False, fetched |-> FALSE, calls |-> 0]
    ELSE IF outcome = "NotFoundError"
    THEN [ret |-> False, fetched |-> TRUE, calls |-> 1]
    ELSE IF outcome = "error"
    THEN [ret |-> Raise("error"), fetched |-> TRUE, calls |-> 1]
    ELSE [ret |-> Dict(payload, 0), fetched |-> TRUE, calls |-> 1]

\* The result of a call: ret is the returned value (Raise for an exception
\* that propagates), fetched tells whether gh.repository / gh.user was called
\* and calls how many times.
get_repository_info_from_github(ratelimits, outcome, payload) ==
    IF ratelimits.remaining < RATELIMIT_FLOOR
    THEN [ret |-> False, fetched |-> FALSE, calls |-> 0]
    ELSE IF outcome = "NotFoundError"
    THEN [ret |-> False, fetched |-> TRUE, calls |-> 1]
    ELSE IF outcome = "error"
    THEN [ret |-> Raise("error"), fetched |-> TRUE, calls |-> 1]
    ELSE IF outcome = "private"
    THEN [ret |-> False, fetched |-> TRUE, calls |-> 1]
    ELSE [ret |-> Dict(payload, 0), fetched |-> TRUE, calls |-> 1]

get_user_info_from_github(ratelimits, outcome, payload) ==
    IF ratelimits.remaining < RATELIMIT_FLOOR
    THEN [ret |-> False, fetched |-> FALSE, calls |-> 0]
    ELSE IF outcome = "NotFoundError"
    THEN [ret |-> False, fetched |-> TRUE, calls |-> 1]
    ELSE IF outcome = "error"
    THEN [ret |-> Raise("error"), fetched |-> TRUE, calls |-> 1]
    ELSE [ret |-> Dict(payload, 0), fetched |-> TRUE, calls |-> 1]

\* get_info_from_github calling GitHub a second time after an error
get_info_from_github_retry(repository, ratelimits, outcome, payload) ==
    LET g == IF HasRepository(repository)
             THEN get_repository_info_from_github(ratelimits, outcome, payload)
             ELSE get_user_info_from_github(ratelimits, outcome, payload)
    IN IF g.ret.py = "raise" THEN [g EXCEPT !.calls = @ + 1] ELSE g

get_info_from_github(repository, ratelimits, outcome, payload) ==
    IF HasRepository(repository)
    THEN get_repository_info_from_github(ratelimits, outcome, payload)
    ELSE get_user_info_from_github(ratelimits, outcome, payload)

\* every request to the API other than /rate_limit costs one call
Consume(ratelimits, fetched) ==
    IF fetched /\ ratelimits.remaining > 0
    THEN [ratelimits EXCEPT !.remaining = @ - 1]
    ELSE ratelimits

\* ------------------------------------------------------------- endpoints
\* repository_info / user_info: `if not details: raise HTTPException(404)`
EndpointResponse(repository, result) ==
    IF result.py = "raise"
    THEN [status |-> 500, detail |-> "Internal Server Error"]
    ELSE IF ~Truthy(result)
    THEN [status |-> 404,
          detail |-> IF HasRepository(repository)
                     THEN "Unable to find repository"
                     ELSE "Unable to find user"]
    ELSE [status |-> 200, detail |-> "ok"]

None == [py |-> "None"]
NoResponse == [status |-> 0, detail |-> ""]

IdleRequest ==
    [pc |-> "idle", owner |-> "", repository |-> "", background_tasks |-> FALSE,
     saved_details |-> None, github_details |-> None, result |-> None,
     response |-> NoResponse,
     \* what the request saw and did
     row_found |-> FALSE, row_age |-> -1, draw |-> -1, seen_remaining |-> -1,
     quota_calls |-> 0, fetch_calls |-> 0, upstream |-> "none", veto |-> "none",
     task |-> "none", writes |-> 0, saved_at |-> -1]

\* `return value` of get_github_info, and the endpoint's reply
Return(q, value) ==
    [q EXCEPT !.pc = "done", !.result = value,
              !.response = EndpointResponse(q.repository, value)]

\* lines 191-216 of get_github_info, from the return of the SELECT to the
\* first await of a save (or to the return), as one atomic segment
get_github_info(q, ratelimits, draw, outcome, payload) ==
    LET saved == q.saved_details
        g     == get_info_from_github(q.repository, ratelimits, outcome, payload)
        \* what the call of get_info_from_github leaves in the history
        called(n) == [q EXCEPT !.quota_calls = n,
                               !.seen_remaining = ratelimits.remaining,
                               !.fetch_calls = @ + g.calls,
                               !.upstream = IF g.fetched THEN outcome ELSE "none",
                               !.veto = IF g.fetched THEN "none" ELSE "floor",
                               !.github_details = g.ret]
    IN
    IF ~Truthy(saved)
    THEN IF g.ret.py = "raise"
         THEN Return(called(1), g.ret)
         ELSE [called(1) EXCEPT !.pc = "save"]
    ELSE IF saved.age < CACHE_SOFT_TTL
    THEN Return(q, saved)
    ELSE IF saved.age < CACHE_HARD_TTL /\ ~RandomImported
    THEN Return([q EXCEPT !.draw = draw], Raise("NameError"))
    ELSE IF saved.age < CACHE_HARD_TTL /\ draw < CACHE_REGENERATE_CHANCE
    THEN Return([q EXCEPT !.draw = draw], saved)
    ELSE IF RatelimitRunningOut(ratelimits)
    THEN Return([q EXCEPT !.quota_calls = 1,
                          !.seen_remaining = ratelimits.remaining,
                          !.veto = "preserve",
                          !.draw = IF saved.age < CACHE_HARD_TTL THEN draw ELSE -1],
                saved)
    ELSE LET c == [called(2) EXCEPT
                      !.draw = IF saved.age < CACHE_HARD_TTL THEN draw ELSE -1]
         IN IF g.ret.py = "raise"
            THEN Return(c, g.ret)
            ELSE IF q.background_tasks
            THEN Return([c EXCEPT !.task = "queued"], g.ret)
            ELSE [c EXCEPT !.pc = "save"]

\* ------------------------------------------------------------------ Init
\* Rows cached earlier for subjects that no request of the behaviour asks
\* for: another repository of the same owner, and another user.
OtherRepositoryRow ==
    [owner |-> "octocat", repository |-> "spoon", update_time |-> 0,
     details_json |-> ujson_dumps(Dict("A", 0))]

OtherUserRow ==
    [user |-> "tedivm", update_time |-> 0,
     details_json |-> ujson_dumps(Dict("A", 0))]

InitialRepositories ==
    {rows \cup {OtherRepositoryRow} :
       rows \in {{}} \cup {{[owner |-> o, repository |-> r, update_time |-> 0,
                              details_json |-> ujson_dumps(Dict("A", 0))]} :
                            o \in Owners, r \in Repositories}}

InitialUsers ==
    {rows \cup {OtherUserRow} :
       rows \in {{}} \cup {{[user |-> o, update_time |-> 0,
                              details_json |-> ujson_dumps(Dict("A", 0))]} :
                            o \in Owners}}

\* the percentage test not taken on its own
NoGuard == [reserve |-> RATELIMIT_PRESERVE, applied |-> FALSE, veto |-> FALSE]

Init ==
    /\ now = 0
    /\ ratelimit_core \in InitialRatelimits
    /\ repositories \in InitialRepositories
    /\ users \in InitialUsers
    /\ req = [r \in Requests |-> IdleRequest]
    /\ started = 0
    /\ guard = NoGuard

\* --------------------------------------------------------------- actions
\* The slots are interchangeable: a request takes the lowest slot never
\* used, and when there is none the slot of a request that has returned and
\* whose background task has run.
SlotFree(r) ==
    LET idle == {x \in Requests : req[x].pc = "idle"} IN
    IF idle # {}
    THEN r \in idle /\ \A x \in idle : r <= x
    ELSE req[r].pc = "done" /\ req[r].task # "queued"

\* A GET /repos/{owner}/{repository} or GET /users/{user} arrives (or
\* get_github_info is called without background_tasks) and line 190 runs.
\* The arrival touches no shared state, so it is one step with the SELECT.
Read(r) ==
    /\ SlotFree(r)
    /\ started < MaxRequests
    /\ started' = started + 1
    /\ \E owner \in Owners, repository \in Repositories \cup {NoRepository},
          background_tasks \in BOOLEAN :
         LET found == SelectRow(owner, repository) IN
         req' = [req EXCEPT ![r] = [IdleRequest EXCEPT
                   !.pc = "decide",
                   !.owner = owner,
                   !.repository = repository,
                   !.background_tasks = background_tasks,
                   !.saved_details =
                       get_saved_github_info_from_sqlite(owner, repository),
                   !.row_found = found # {},
                   !.row_age = IF found = {} THEN -1
                               ELSE AgeInMinutes((CHOOSE x \in found : TRUE).update_time)]]
    /\ UNCHANGED <<now, ratelimit_core, repositories, users, guard>>

\* the segment held back while another request has fetched the same key and
\* has not written it yet (single flight)
Decide_singleflight(r) ==
    /\ req[r].pc = "decide"
    /\ ~\E x \in Requests \ {r} :
          /\ req[x].pc = "save"
          /\ req[x].fetch_calls = 1
          /\ req[x].owner = req[r].owner
          /\ req[x].repository = req[r].repository
    /\ \E draw \in Draws, outcome \in UpstreamOutcomes, payload \in Payloads :
         /\ outcome = "private" => HasRepository(req[r].repository)
         /\ ratelimit_core.remaining = 0 => outcome = "error"
         /\ LET q == get_github_info(req[r], get_ratelimits, draw, outcome, payload) IN
            /\ req' = [req EXCEPT ![r] = q]
            /\ ratelimit_core' = Consume(ratelimit_core, q.fetch_calls >= 1)
    /\ UNCHANGED <<now, repositories, users, started, guard>>

\* lines 191-216
Decide(r) ==
    /\ req[r].pc = "decide"
    /\ \E draw \in Draws, outcome \in UpstreamOutcomes, payload \in Payloads :
         /\ outcome = "private" => HasRepository(req[r].repository)
         \* an exhausted quota makes GitHub refuse the call
         /\ ratelimit_core.remaining = 0 => outcome = "error"
         /\ LET q == get_github_info(req[r], get_ratelimits, draw, outcome, payload) IN
            /\ req' = [req EXCEPT ![r] = q]
            /\ ratelimit_core' = Consume(ratelimit_core, q.fetch_calls >= 1)
    /\ UNCHANGED <<now, repositories, users, started, guard>>

\* lines 193 and 215: await save_github_info_into_sqlite(owner, repository, ...)
Save(r) ==
    /\ req[r].pc = "save"
    /\ save_github_info_into_sqlite(
           <<req[r].owner, req[r].repository, req[r].github_details>>)
    /\ req' = [req EXCEPT ![r] =
                 [Return(@, @.github_details) EXCEPT !.writes = @ + 1,
                                                     !.saved_at = now]]
    /\ UNCHANGED <<now, ratelimit_core, started, guard>>

\* line 213: background_tasks.add_task(save_github_info_into_sqlite,
\* repository, github_details), run by Starlette after the response
RunBackgroundTask(r) ==
    /\ req[r].pc = "done"
    /\ req[r].task = "queued"
    /\ LET args == <<req[r].repository, req[r].github_details>> IN
       /\ save_github_info_into_sqlite(args)
       /\ req' = [req EXCEPT ![r] =
                    IF SaveRaisesTypeError(args)
                    THEN [@ EXCEPT !.task = "TypeError"]
                    ELSE [@ EXCEPT !.task = "saved", !.writes = @ + 1,
                                   !.saved_at = now]]
    /\ UNCHANGED <<now, ratelimit_core, started, guard>>

\* time passes
Tick ==
    /\ \E t \in TimePoints : t > now /\ now' = t
    /\ UNCHANGED <<ratelimit_core, repositories, users, req, started, guard>>

Next ==
    \/ \E r \in Requests : Read(r)
    \/ \E r \in Requests : Decide(r)
    \/ \E r \in Requests : Save(r)
    \/ \E r \in Requests : RunBackgroundTask(r)
    \/ Tick

Spec == Init /\ [][Next]_vars

\* ------------------------------------------- the percentage test alone
\* Quotas for the test: every count of an unauthenticated client's 60, and
\* every fiftieth count of a token's 5000.
GuardRatelimits ==
    {[limit |-> 60, remaining |-> n] : n \in 0..60}
        \cup {[limit |-> 5000, remaining |-> 50 * n] : n \in 0..100}

\* int(os.environ.get('RATELIMIT_PRESERVE', 10)), a percentage
GuardReserves == 0..100

InitGuard ==
    /\ now = 0
    /\ ratelimit_core \in GuardRatelimits
    /\ repositories = {}
    /\ users = {}
    /\ req = [r \in Requests |-> IdleRequest]
    /\ started = 0
    /\ guard \in {[NoGuard EXCEPT !.reserve = p] : p \in GuardReserves}

\* lines 206-208 run once on the quota GitHub reports
ApplyGuard ==
    /\ ~guard.applied
    /\ guard' = [guard EXCEPT !.applied = TRUE,
                              !.veto = PercentTest(get_ratelimits, guard.reserve)]
    /\ UNCHANGED <<now, ratelimit_core, repositories, users, req, started>>

NextGuard == ApplyGuard

SpecGuard == InitGuard /\ [][NextGuard]_vars

\* ================================================================ claims
\* what the formulas below read off a request
Decided(r) == req[r].pc \in {"save", "done"}
HadRecord(r) == Truthy(req[r].saved_details)
\* remaining / limit * 100 < reserve, in exact arithmetic
PercentBelow(remaining, limit, reserve) == remaining * 100 < reserve * limit
\* the step in which request r's write is carried out: the awaited save
\* returns, or the background task has run
Persisted(r) ==
    \/ req[r].pc = "save" /\ req'[r].pc = "done"
    \/ req[r].pc = "done" /\ req[r].task = "queued" /\ req'[r].pc = "done"
          /\ req'[r].task # "queued"

\* C1: a get for a key whose stored record is younger than CACHE_SOFT_TTL
\* calls neither /rate_limit nor the fetch, whatever the stored payload.
C1_FreshRecordNoUpstream ==
    \A r \in Requests :
        (Decided(r) /\ req[r].row_found /\ req[r].row_age < CACHE_SOFT_TTL)
            => (req[r].quota_calls = 0 /\ req[r].fetch_calls = 0)

\* C2: for a record of age >= CACHE_HARD_TTL, with the guard allowing and
\* the fetch succeeding, the fetch is called once and, once the write
\* (awaited or handed to the background tasks) has been carried out, a read
\* of the key gives the new payload with age 0.
C2_HardRefreshPersisted ==
    [][\A r \in Requests :
         (/\ Persisted(r)
          /\ HadRecord(r)
          /\ req[r].saved_details.age >= CACHE_HARD_TTL
          /\ req[r].veto = "none"
          /\ req[r].upstream = "ok")
            => (/\ req[r].fetch_calls = 1
                /\ get_saved_github_info_from_sqlite(req[r].owner, req[r].repository)'
                     = req[r].github_details)]_vars

\* C3: when the guard vetoes (percentage below the reserve, or remaining
\* below the floor) and the key has a cached record, get returns that
\* record's payload.
C3_VetoServesCached ==
    \A r \in Requests :
        (req[r].pc = "done" /\ HadRecord(r) /\ req[r].veto \in {"preserve", "floor"})
            => req[r].result = req[r].saved_details

C5_ColdFetchIffFloor ==
    \A r \in Requests :
        (Decided(r) /\ ~req[r].row_found)
            => (/\ req[r].fetch_calls \in {0, 1}
                /\ req[r].fetch_calls = 1
                     <=> req[r].seen_remaining >= RATELIMIT_FLOOR)

\* a cold user key fetched although the percentage is below the reserve
C5_Witness ==
    \E r \in Requests :
        /\ Decided(r)
        /\ ~req[r].row_found
        /\ ~HasRepository(req[r].repository)
        /\ req[r].fetch_calls = 1
        /\ PercentBelow(req[r].seen_remaining, ratelimit_core.limit,
                        RATELIMIT_PRESERVE)

\* C6: when GitHub answers NotFound, or the repository is private, the
\* request's save leaves both tables as they were.
C6_AbsenceNotWritten ==
    [][\A r \in Requests :
         (Persisted(r) /\ req[r].upstream \in {"NotFoundError", "private"})
            => UNCHANGED <<repositories, users>>]_vars

\* C7: a refresh of an existing record that fails (veto, NotFound, private)
\* leaves the stored record as it was.
C7_FailedRefreshKeepsRecord ==
    [][\A r \in Requests :
         (Persisted(r) /\ HadRecord(r) /\ ~Truthy(req[r].github_details))
            => (SelectRow(req[r].owner, req[r].repository)'
                  = SelectRow(req[r].owner, req[r].repository))]_vars

\* C8: for CACHE_SOFT_TTL <= age < CACHE_HARD_TTL and a draw r, get goes on
\* to the guard exactly when r < CACHE_REGENERATE_CHANCE / 100 and returns
\* the cached payload without any call upstream exactly when it is not.
C8_DrawDecidesRefresh ==
    \A r \in Requests :
        (/\ Decided(r)
         /\ HadRecord(r)
         /\ req[r].saved_details.age >= CACHE_SOFT_TTL
         /\ req[r].saved_details.age < CACHE_HARD_TTL)
            => IF req[r].draw < CACHE_REGENERATE_CHANCE
               THEN req[r].quota_calls >= 1
               ELSE /\ req[r].result = req[r].saved_details
                    /\ req[r].quota_calls = 0
                    /\ req[r].fetch_calls = 0

\* C9: under any interleaving of the requests, gh.repository / gh.user is
\* called only while remaining is at or above the floor, so remaining is
\* never driven to zero.
C9_NoFetchBelowFloor ==
    [][\A r \in Requests :
         (req[r].pc = "decide" /\ req'[r].fetch_calls = 1)
            => (/\ ratelimit_core.remaining >= RATELIMIT_FLOOR
                /\ ratelimit_core'.remaining = ratelimit_core.remaining - 1
                /\ ratelimit_core'.remaining > 0)]_vars

\* two requests in flight at once: one has fetched with the last call above
\* the floor and awaits its save, the other was stopped by the floor
C9_Witness ==
    \E r1, r2 \in Requests :
        /\ r1 # r2
        /\ req[r1].pc = "save" /\ req[r1].fetch_calls = 1
        /\ req[r1].seen_remaining = RATELIMIT_FLOOR
        /\ req[r2].pc = "save" /\ req[r2].veto = "floor"
        /\ ratelimit_core.remaining = RATELIMIT_FLOOR - 1

\* C10: the reply to a get vetoed on a cold key differs from the reply to
\* a get whose subject GitHub reports absent or private.
C10_UnavailableDistinctFromNotFound ==
    \A r1, r2 \in Requests :
        (/\ req[r1].pc = "done" /\ ~req[r1].row_found /\ req[r1].veto = "floor"
         /\ req[r2].pc = "done"
         /\ req[r2].upstream \in {"NotFoundError", "private"})
            => req[r1].response # req[r2].response

\* the step in which a call of save_github_info_into_sqlite by request r
\* reaches its REPLACE (a put is applied)
PutApplied(r) ==
    \/ req[r].pc = "save" /\ req'[r].pc = "done"
    \/ req[r].task = "queued" /\ req'[r].task = "saved"

\* the keys of the rows of the two tables
RepositoryKeys(rows) == {<<x.owner, x.repository>> : x \in rows}
UserKeys(rows) == {x.user : x \in rows}
OnePerKey ==
    /\ Cardinality(RepositoryKeys(repositories)) = Cardinality(repositories)
    /\ Cardinality(UserKeys(users)) = Cardinality(users)

\* C11: each table holds one row per key; a put leaves under its key the
\* one row with the payload just written and update_time = now, a read then
\* returns that payload, and the rows of every other key are as before.
C11_Upsert ==
    /\ []OnePerKey
    /\ [][\A r \in Requests :
            PutApplied(r) =>
              LET o == req[r].owner
                  k == req[r].repository
                  d == req[r].github_details
              IN /\ SelectRow(o, k)'
                      = {[update_time |-> now, details_json |-> ujson_dumps(d)]}
                 /\ get_saved_github_info_from_sqlite(o, k)' = d
                 /\ IF HasRepository(k)
                    THEN /\ users' = users
                         /\ {x \in repositories' : <<x.owner, x.repository>> # <<o, k>>}
                              = {x \in repositories : <<x.owner, x.repository>> # <<o, k>>}
                    ELSE /\ repositories' = repositories
                         /\ {x \in users' : x.user # o}
                              = {x \in users : x.user # o}]_vars

\* two puts of different payloads to the same user key have been applied,
\* and the table holds that key once, with the payload of the later put
C11_Witness ==
    \E r1, r2 \in Requests :
        /\ r1 # r2
        /\ req[r1].writes = 1 /\ req[r2].writes = 1
        /\ req[r1].owner = req[r2].owner
        /\ ~HasRepository(req[r1].repository) /\ ~HasRepository(req[r2].repository)
        /\ Truthy(req[r1].github_details) /\ Truthy(req[r2].github_details)
        /\ req[r1].github_details # req[r2].github_details
        /\ req[r1].saved_at < req[r2].saved_at
        /\ {x \in users : x.user = req[r1].owner}
             = {[user |-> req[r2].owner, update_time |-> req[r2].saved_at,
                 details_json |-> ujson_dumps(req[r2].github_details)]}

C13_NeverDeleted ==
    [][/\ RepositoryKeys(repositories) \subseteq RepositoryKeys(repositories')
       /\ UserKeys(users) \subseteq UserKeys(users')
       /\ get_stored_repository_count' >= get_stored_repository_count
       /\ get_stored_user_count' >= get_stored_user_count]_vars

\* a request has written over the row of its repository, next to the row
\* of the owner's other repository, and the count is that of both rows
C13_Witness ==
    \E r \in Requests :
        /\ HasRepository(req[r].repository)
        /\ req[r].row_found
        /\ req[r].writes = 1
        /\ OtherRepositoryRow \in repositories
        /\ get_stored_repository_count = Cardinality(Repositories) + 1

\* request r has observed its key cold, or stale beyond CACHE_HARD_TTL, and
\* the quota lets the refresh through
RefreshDue(r) ==
    /\ req[r].pc = "decide"
    /\ \/ ~HadRecord(r)
       \/ /\ req[r].saved_details.age >= CACHE_HARD_TTL
          /\ ~PercentBelow(ratelimit_core.remaining, ratelimit_core.limit,
                           RATELIMIT_PRESERVE)
    /\ ratelimit_core.remaining >= RATELIMIT_FLOOR

\* request x has fetched the key of request r, and its write has not landed
FetchInFlight(x, r) ==
    /\ req[x].pc = "save"
    /\ req[x].fetch_calls = 1
    /\ req[x].writes = 0
    /\ req[x].owner = req[r].owner
    /\ req[x].repository = req[r].repository

\* C14: there is no single flight: a request that has observed its key cold
\* or stale can go on to fetch it although another request has fetched the
\* same key and not yet written it.
C14_NoSingleFlight ==
    \A r, x \in Requests :
        (r # x /\ RefreshDue(r) /\ FetchInFlight(x, r))
            => ENABLED (Decide(r) /\ req'[r].fetch_calls = 1)

\* both requests observed the same key before either write landed, and both
\* have fetched it
C14_Witness ==
    \E r, x \in Requests :
        /\ r # x
        /\ FetchInFlight(x, r)
        /\ FetchInFlight(r, x)
        /\ req[r].saved_details = req[x].saved_details

\* C15: no automatic retries: a request calls GitHub for its key at most
\* once, and exactly once when the call had an outcome, whichever of ok,
\* NotFoundError, private or error it was.
C15_NoRetry ==
    \A r \in Requests :
        /\ req[r].fetch_calls <= 1
        /\ req[r].upstream \in UpstreamOutcomes => req[r].fetch_calls = 1

\* one request's fetch ended in an error that propagated, another's in
\* NotFoundError: each called GitHub once
C15_Witness ==
    \E r, x \in Requests :
        /\ req[r].pc = "done"
        /\ req[r].upstream = "error"
        /\ req[r].result = Raise("error")
        /\ req[r].fetch_calls = 1
        /\ req[x].upstream = "NotFoundError"
        /\ req[x].fetch_calls = 1

\* C16: the deferred and the synchronous persistence are equivalent: when
\* the background task of a request has run, the store holds what the awaited
\* save of the same owner, repository or user and fetched payload would have
\* written.
C16_DeferredSameAsSynchronous ==
    [][\A r \in Requests :
        (/\ req[r].task = "queued" /\ req'[r].task # "queued"
         /\ req[r].fetch_calls = 1 /\ Truthy(req[r].github_details))
            => IF HasRepository(req[r].repository)
               THEN repositories' =
                        ReplaceIntoRepositories(repositories, req[r].owner,
                            req[r].repository, now,
                            ujson_dumps(req[r].github_details))
               ELSE users' =
                        ReplaceIntoUsers(users, req[r].owner, now,
                            ujson_dumps(req[r].github_details))]_vars

\* C17: the test as coded, int(remaining / limit * 100) < reserve, vetoes
\* exactly when the exact percentage remaining / limit * 100 is below the
\* reserve, for every 0 <= remaining <= limit and every reserve in 0..100.
C17_TruncationExact ==
    guard.applied
        => (guard.veto <=> PercentBelow(ratelimit_core.remaining,
                                        ratelimit_core.limit, guard.reserve))

====
